---- MODULE Spec2Model ----
(***************************************************************************)
(* Model of src/app.py: the /process_recording webhook of the voice Q&A    *)
(* bot.  Every request runs the pipeline                                   *)
(*   validate -> transcribe (.mp3 URL, then fallback) -> chat -> tts       *)
(* and answers with a TwiML document.  Requests are interleaved at their   *)
(* blocking external calls (the interleavings of several server processes  *)
(* over one static directory; a single event loop runs a subset of them,   *)
(* one handler after the other).  Requests share only the static           *)
(* directory.                                                              *)
(*                                                                         *)
(* Strings are sequences of chunks (a chunk is a character or a fixed      *)
(* piece of text), so that concatenation is \o and strip() is computed.    *)
(* A Python value is Str(s) or PyNone.                                     *)
(***************************************************************************)
EXTENDS Integers, Sequences, FiniteSets, TLC

\* ---------------------------------------------------------------- bounds
NumRequests == 2

Requests == 1..NumRequests

\* ---------------------------------------------------------------- values
PyNone == [t |-> "none"]
Str(s) == [t |-> "str", v |-> s]
IsStr(x) == x.t = "str"

\* The characters str.strip() removes: those for which str.isspace() holds.
\* A character with no escape in a TLA+ string is the chunk naming its code point.
Whitespace ==
    {" ", "\t", "\n", "\r", "\f",
     "U+000B", "U+001C", "U+001D", "U+001E", "U+001F", "U+0085", "U+00A0",
     "U+1680", "U+2000", "U+2001", "U+2002", "U+2003", "U+2004", "U+2005",
     "U+2006", "U+2007", "U+2008", "U+2009", "U+200A", "U+2028", "U+2029",
     "U+202F", "U+205F", "U+3000"}

RECURSIVE LStrip(_)
LStrip(s) == IF s # <<>> /\ Head(s) \in Whitespace THEN LStrip(Tail(s)) ELSE s

RECURSIVE RStrip(_)
RStrip(s) ==
    IF s # <<>> /\ s[Len(s)] \in Whitespace
    THEN RStrip(SubSeq(s, 1, Len(s) - 1))
    ELSE s

\* str.strip()
Strip(s) == RStrip(LStrip(s))

\* fault: `not transcription` (the strip() forgotten)
IsBlankNoStrip(s) == s = <<>>
\* `not transcription.strip()` (line 117)
IsBlank(s) == Strip(s) = <<>>

\* fault: `RecordingUrl is None`
MissingOnlyNone(url) == url = PyNone
\* `not RecordingUrl` (line 104): None and "" are falsy
Missing(url) == url = PyNone \/ url = Str(<<>>)

\* configuration (line 16, default)
HOST_URL == <<"http://localhost:8000">>

\* fault: one fixed download name for every request
DownloadFilenameShared(unique) == <<"recording", ".mp3">>
\* f"recording_{unique}.mp3" (line 113)
DownloadFilename(unique) == <<"recording_", unique, ".mp3">>

\* f"response_{unique}.mp3" (line 136)
OutMp3Name(unique) == <<"response_", unique, ".mp3">>

\* fault: the static mount point left out of the URL
PublicUrlNoStatic(out_name) == HOST_URL \o <<"/">> \o out_name
\* f"{HOST_URL}/static/{out_name}" (line 74)
PublicUrl(out_name) == HOST_URL \o <<"/static/">> \o out_name

\* ---------------------------------------------------------------- TwiML
Say(text) == [tag |-> "Say", text |-> text]
Pause(n) == [tag |-> "Pause", length |-> n]
Play(url) == [tag |-> "Play", url |-> url]

\* PlainTextResponse(resp.to_xml(), media_type="application/xml")
Respond(verbs) == [status |-> 200, media |-> "application/xml", body |-> verbs]

MissingText == "Sorry, I couldn't find your recording. Goodbye."
AudioErrorText == "Sorry, there was an error processing your audio. Please try again later. Goodbye."
ChatErrorText == "Sorry, I couldn't generate an answer at the moment. Goodbye."
TtsErrorText == "Sorry, an error occurred preparing my reply. Goodbye."
ClosingText == "If you have another question, please call again. Goodbye."

\* lines 105-107
MissingResponse == Respond(<<Say(MissingText)>>)
\* fault: the transcription handler speaks the completion apology
AudioErrorResponseWrongLine == Respond(<<Say(ChatErrorText)>>)
\* lines 121-124
AudioErrorResponse == Respond(<<Say(AudioErrorText)>>)
\* lines 130-133
ChatErrorResponse == Respond(<<Say(ChatErrorText)>>)
\* fault: the synthesis handler speaks the completion apology
TtsErrorResponseChatLine == Respond(<<Say(ChatErrorText)>>)
\* lines 140-143
TtsErrorResponse == Respond(<<Say(TtsErrorText)>>)
\* fault: the pause before the play directive left out
SuccessResponseNoPause(url) == Respond(<<Play(url), Say(ClosingText)>>)
\* lines 146-152
SuccessResponse(url) == Respond(<<Pause(1), Play(url), Say(ClosingText)>>)
\* no response returned yet
NoResponse == [status |-> 0, media |-> "", body |-> <<>>]

\* ------------------------------------------------- the outside world
\* Recording references Twilio may post (RecordingUrl: str = Form(None))
RecordingUrls == {PyNone, Str(<<>>), Str(<<"https://api.twilio.com/RE1">>)}

\* Texts the transcription service may return
Texts == {<<>>, <<" ", "\r", "\n">>, <<"\f", "q">>}

\* Contents the completion service may return
Contents == {<<"a">>, <<" ", "a", "\r", "U+00A0", "\n">>}

\* An HTTP exchange: exc = the request itself raised; parse = what r.json()
\* finds ("object", "array", or "invalid" when it raises).
HttpResponses(bodies) ==
    [exc : {FALSE}, status : {200}, parse : {"object"}, json : bodies]
    \cup [exc : {FALSE}, status : {200}, parse : {"array", "invalid"}, json : {<<>>}]
    \cup [exc : {FALSE}, status : {500}, parse : {"object"}, json : {[error |-> Str(<<"e">>)]}]
    \cup [exc : {TRUE}, status : {0}, parse : {"invalid"}, json : {<<>>}]

TranscriptionBodies ==
    {[text |-> Str(t)] : t \in Texts} \cup {[text |-> PyNone], [language |-> Str(<<"en">>)]}

ChatBodies ==
    {[choices |-> <<[message |-> [content |-> Str(c)]]>>] : c \in Contents}
    \cup {[choices |-> <<[message |-> [content |-> PyNone]]>>],
          [choices |-> <<>>],
          [error |-> Str(<<"e">>)]}

\* requests.get(file_url); resp.raise_for_status()  (lines 35-36)
DownloadOutcomes == {"ok", "ConnectionError", "HTTPError"}

\* gTTS(text, lang).save(path)  (lines 72-73): "AssertionError" is raised by the
\* constructor before any file is opened, "gTTSError" by save() after the
\* output file was opened for writing.
TtsOutcomes == {"ok", "AssertionError", "gTTSError"}

Raised(err) == [raised |-> TRUE, err |-> err, value |-> PyNone]
Returned(v) == [raised |-> FALSE, err |-> "", value |-> v]

\* dict.get(key, default)
JsonGet(j, key, default) == IF key \in DOMAIN j THEN j[key] ELSE default

\* lines 45-49 of transcribe_audio_from_url: the upload and its result
TranscribeResult(resp) ==
    IF resp.exc THEN Raised("ConnectionError")
    ELSE IF resp.status # 200 THEN Raised("Transcription error")
    ELSE IF resp.parse = "invalid" THEN Raised("JSONDecodeError")
    ELSE IF resp.parse # "object" THEN Raised("AttributeError")
    ELSE Returned(JsonGet(resp.json, "text", Str(<<>>)))

\* lines 62-66 of ask_chatgpt
AskChatgptResult(resp) ==
    IF resp.exc THEN Raised("ConnectionError")
    ELSE IF resp.status # 200 THEN Raised("Chat error")
    ELSE IF resp.parse = "invalid" THEN Raised("JSONDecodeError")
    ELSE IF resp.parse # "object" THEN Raised("TypeError")
    ELSE IF "choices" \notin DOMAIN resp.json THEN Raised("KeyError")
    ELSE IF Len(resp.json.choices) = 0 THEN Raised("IndexError")
    ELSE IF ~IsStr(resp.json.choices[1].message.content) THEN Raised("AttributeError")
    ELSE Returned(Str(Strip(resp.json.choices[1].message.content.v)))

\* lines 115-118 of process_recording: what follows an attempt that returned v
\*   "raise"   v.strip() raises (v is not a string)
\*   "retry"   first attempt, blank transcript: try the unmodified URL
\*   "proceed" go on to the completion stage
AfterAttempt(n, v) ==
    IF n = 1
    THEN IF ~IsStr(v) THEN "raise"
         ELSE IF IsBlank(v.v) THEN "retry" ELSE "proceed"
    ELSE "proceed"

\* line 115 / line 118: the URL an attempt downloads
AttemptUrl(n, url) == IF n = 1 THEN Str(url.v \o <<".mp3">>) ELSE url

\* uuid.uuid4().hex (line 112) as drawn by request r.  A token is an opaque
\* random value; what is modelled is that no two calls return the same one, and
\* the token of request r is named after r (nothing below depends on the name).
Uuid4(r) == ToString(r)

\* fault: the directory is recreated on every write
WriteFileTruncating(dir, name, r, content) ==
    [n \in {name} |-> [writer |-> r, content |-> content]]
\* open(path, "wb").write(content) in the static directory
WriteFile(dir, name, r, content) ==
    [n \in DOMAIN dir \cup {name} |->
        IF n = name THEN [writer |-> r, content |-> content] ELSE dir[n]]

\* One external call as a mocked client would record it: the operation, its
\* argument, the static file it targets (PyNone if none) and whether it raised.
\* What a call returned lives in the handler's locals.
Event(op, arg, out, res) == [op |-> op, arg |-> arg, out |-> out, raised |-> res.raised]

\* ---------------------------------------------------------------- state
VARIABLES
    pc,            \* request -> position in process_recording
    RecordingUrl,  \* request -> the RecordingUrl form field
    unique,        \* request -> uuid token (line 112)
    attempt,       \* request -> 1 (.mp3 URL) or 2 (unmodified URL)
    transcription, \* request -> local `transcription`
    answer,        \* request -> local `answer`
    response,      \* request -> the response returned, NoResponse before
    calls,         \* request -> external calls made so far, in order
    static,        \* file name -> [writer, content]: the static directory
    written        \* set of <<file name, request>>: who ever wrote which file

vars == <<pc, RecordingUrl, unique, attempt, transcription, answer, response,
          calls, static, written>>

\* STATIC_DIR.mkdir(exist_ok=True) (line 21) keeps what an earlier run of the
\* server left: the directory starts empty, or with the files of an earlier
\* request (writer 0), whose token no later uuid4 call returns.
InitialStatics ==
    {<<>>,
     [n \in {<<"recording_", "0", ".mp3">>, <<"response_", "0", ".mp3">>} |->
        [writer |-> 0,
         content |-> IF n[1] = "recording_"
                     THEN [kind |-> "recording", of |-> Str(<<"https://api.twilio.com/RE0", ".mp3">>)]
                     ELSE [kind |-> "speech", of |-> Str(<<"a">>)]]]}

Init ==
    /\ pc = [r \in Requests |-> "new"]
    /\ RecordingUrl = [r \in Requests |-> PyNone]
    /\ unique = [r \in Requests |-> ""]
    /\ attempt = [r \in Requests |-> 0]
    /\ transcription = [r \in Requests |-> PyNone]
    /\ answer = [r \in Requests |-> PyNone]
    /\ response = [r \in Requests |-> NoResponse]
    /\ calls = [r \in Requests |-> <<>>]
    /\ static \in InitialStatics
    /\ written = {<<n, static[n].writer>> : n \in DOMAIN static}

\* return PlainTextResponse(...): the handler ends
Return(r, resp) ==
    /\ response' = [response EXCEPT ![r] = resp]
    /\ pc' = [pc EXCEPT ![r] = "done"]

Record(r, ev) == calls' = [calls EXCEPT ![r] = Append(@, ev)]

\* lines 104-107: no recording reference
ReceiveMissing(r) ==
    /\ pc[r] = "new"
    /\ \E url \in RecordingUrls :
        /\ Missing(url)
        /\ RecordingUrl' = [RecordingUrl EXCEPT ![r] = url]
    /\ Return(r, MissingResponse)
    /\ UNCHANGED <<unique, attempt, transcription, answer, calls, static,
                   written>>

\* lines 104, 112-113: a recording reference is present; draw the token
ReceiveRecording(r) ==
    /\ pc[r] = "new"
    /\ \E url \in RecordingUrls :
        /\ ~Missing(url)
        /\ RecordingUrl' = [RecordingUrl EXCEPT ![r] = url]
    /\ unique' = [unique EXCEPT ![r] = Uuid4(r)]
    /\ attempt' = [attempt EXCEPT ![r] = 1]
    /\ pc' = [pc EXCEPT ![r] = "download"]
    /\ UNCHANGED <<transcription, answer, response, calls, static, written>>

\* fault: the exception is swallowed and the pipeline goes on
TranscriptionFailedProceeds(r) ==
    /\ pc' = [pc EXCEPT ![r] = "chat"]
    /\ UNCHANGED <<attempt, response>>
\* fault: a failed first attempt falls back to the unmodified URL
TranscriptionFailedRetry(r) ==
    IF attempt[r] = 1
    THEN /\ attempt' = [attempt EXCEPT ![r] = 2]
         /\ pc' = [pc EXCEPT ![r] = "download"]
         /\ UNCHANGED response
    ELSE /\ Return(r, AudioErrorResponse)
         /\ UNCHANGED attempt
\* lines 119-124: an exception inside the transcription try block
TranscriptionFailed(r) ==
    /\ Return(r, AudioErrorResponse)
    /\ UNCHANGED attempt

\* lines 35-39 of transcribe_audio_from_url: download and save the recording
Download(r) ==
    /\ pc[r] = "download"
    /\ LET file_url == AttemptUrl(attempt[r], RecordingUrl[r])
           filename == DownloadFilename(unique[r])
       IN \E outcome \in DownloadOutcomes :
            IF outcome = "ok"
            THEN /\ Record(r, Event("get", file_url, Str(filename), Returned(PyNone)))
                 /\ static' = WriteFile(static, filename, r,
                                        [kind |-> "recording", of |-> file_url])
                 /\ written' = written \cup {<<filename, r>>}
                 /\ pc' = [pc EXCEPT ![r] = "upload"]
                 /\ UNCHANGED <<attempt, response>>
            ELSE /\ Record(r, Event("get", file_url, Str(filename), Raised(outcome)))
                 /\ TranscriptionFailed(r)
                 /\ UNCHANGED <<static, written>>
    /\ UNCHANGED <<RecordingUrl, unique, transcription, answer>>

\* lines 42-49 and 115-118: upload the saved file, then decide what follows
Upload(r) ==
    /\ pc[r] = "upload"
    /\ \E resp \in HttpResponses(TranscriptionBodies) :
        LET res == TranscribeResult(resp)
            next == AfterAttempt(attempt[r], res.value)
        IN /\ Record(r, Event("transcribe", AttemptUrl(attempt[r], RecordingUrl[r]),
                              Str(DownloadFilename(unique[r])), res))
           /\ IF res.raised
              THEN /\ TranscriptionFailed(r)
                   /\ UNCHANGED transcription
              ELSE /\ transcription' = [transcription EXCEPT ![r] = res.value]
                   /\ CASE next = "raise" -> TranscriptionFailed(r)
                        [] next = "retry" ->
                               /\ attempt' = [attempt EXCEPT ![r] = 2]
                               /\ pc' = [pc EXCEPT ![r] = "download"]
                               /\ UNCHANGED response
                        [] OTHER ->
                               /\ pc' = [pc EXCEPT ![r] = "chat"]
                               /\ UNCHANGED <<attempt, response>>
    /\ UNCHANGED <<RecordingUrl, unique, answer, static, written>>

\* lines 127-133: the completion stage
Chat(r) ==
    /\ pc[r] = "chat"
    /\ \E resp \in HttpResponses(ChatBodies) :
        LET res == AskChatgptResult(resp)
        IN /\ Record(r, Event("chat", transcription[r], PyNone, res))
           /\ IF res.raised
              THEN /\ Return(r, ChatErrorResponse)
                   /\ UNCHANGED answer
              ELSE /\ answer' = [answer EXCEPT ![r] = res.value]
                   /\ pc' = [pc EXCEPT ![r] = "tts"]
                   /\ UNCHANGED response
    /\ UNCHANGED <<RecordingUrl, unique, attempt, transcription, static, written>>

\* lines 136-152 with tts_save_mp3 (lines 69-74): synthesis and the final markup
Tts(r) ==
    /\ pc[r] = "tts"
    /\ LET out_mp3_name == OutMp3Name(unique[r])
           mp3_public_url == PublicUrl(out_mp3_name)
       IN \E outcome \in TtsOutcomes :
            CASE outcome = "ok" ->
                    /\ Record(r, Event("tts", answer[r], Str(out_mp3_name),
                                       Returned(Str(mp3_public_url))))
                    /\ static' = WriteFile(static, out_mp3_name, r,
                                           [kind |-> "speech", of |-> answer[r]])
                    /\ written' = written \cup {<<out_mp3_name, r>>}
                    /\ Return(r, SuccessResponse(mp3_public_url))
              [] outcome = "gTTSError" ->
                    /\ Record(r, Event("tts", answer[r], Str(out_mp3_name), Raised(outcome)))
                    /\ static' = WriteFile(static, out_mp3_name, r,
                                           [kind |-> "partial", of |-> answer[r]])
                    /\ written' = written \cup {<<out_mp3_name, r>>}
                    /\ Return(r, TtsErrorResponse)
              [] OTHER ->
                    /\ Record(r, Event("tts", answer[r], Str(out_mp3_name), Raised(outcome)))
                    /\ Return(r, TtsErrorResponse)
                    /\ UNCHANGED <<static, written>>
    /\ UNCHANGED <<RecordingUrl, unique, attempt, transcription, answer>>

Next ==
    \E r \in Requests :
        \/ ReceiveMissing(r)
        \/ ReceiveRecording(r)
        \/ Download(r)
        \/ Upload(r)
        \/ Chat(r)
        \/ Tts(r)

Spec == Init /\ [][Next]_vars

\* ------------------------------------------------------------ properties
Done(r) == pc[r] = "done"
Last(q) == q[Len(q)]
OpIdx(r, op) == {i \in DOMAIN calls[r] : calls[r][i].op = op}
NCalls(r, op) == Cardinality(OpIdx(r, op))
SomeRaised(r, ops) == \E i \in DOMAIN calls[r] : calls[r][i].op \in ops /\ calls[r][i].raised
HasTag(resp, tag) == \E i \in DOMAIN resp.body : resp.body[i].tag = tag
SaysOnly(resp, text) ==
    /\ resp.status = 200
    /\ resp.media = "application/xml"
    /\ resp.body = <<[tag |-> "Say", text |-> text]>>
AllWhitespace(s) == \A i \in DOMAIN s : s[i] \in Whitespace
RecordingName(r) == <<"recording_", unique[r], ".mp3">>
ResponseName(r) == <<"response_", unique[r], ".mp3">>
WroteAny(r) ==
    \/ \E w \in written : w[2] = r
    \/ \E n \in DOMAIN static : static[n].writer = r

\* C1: whenever a transcription attempt of a request raised (the download or
\* the upload, of the ".mp3" attempt or of the fallback), the request has
\* answered with the audio-processing apology and has made no call to the
\* completion or the synthesis client.
C1_TranscriptionErrorApology ==
    \A r \in Requests :
        SomeRaised(r, {"get", "transcribe"}) =>
            /\ Done(r)
            /\ SaysOnly(response[r],
                 "Sorry, there was an error processing your audio. Please try again later. Goodbye.")
            /\ NCalls(r, "chat") = 0
            /\ NCalls(r, "tts") = 0

\* C1 witness: the fallback attempt's upload raised.
C1_Witness ==
    \E r \in Requests :
        /\ Done(r)
        /\ attempt[r] = 2
        /\ Len(calls[r]) = 4
        /\ Last(calls[r]).op = "transcribe"
        /\ Last(calls[r]).raised

\* C2: a request whose RecordingUrl is None or "" has answered with the
\* couldn't-find-your-recording line, made no external call and written no file.
C2_MissingRecording ==
    \A r \in Requests :
        (pc[r] # "new" /\ RecordingUrl[r] \in {PyNone, Str(<<>>)}) =>
            /\ Done(r)
            /\ SaysOnly(response[r], "Sorry, I couldn't find your recording. Goodbye.")
            /\ calls[r] = <<>>
            /\ ~WroteAny(r)

\* C2 witness: an empty RecordingUrl was answered while another request has
\* written to the static directory.
C2_Witness ==
    \E r \in Requests :
        /\ Done(r)
        /\ RecordingUrl[r] = Str(<<>>)
        /\ \E n \in DOMAIN static : static[n].writer \in Requests \ {r}

\* C3: right after the first upload returned a string, the handler is about to
\* download the unmodified URL (second attempt) if the string is blank, and is
\* at the completion stage with no second attempt otherwise; a second download
\* is of the unmodified RecordingUrl, follows a first attempt on
\* RecordingUrl + ".mp3", and precedes every completion call; a completion call
\* made after a single attempt got a non-blank transcript.
C3_FallbackOnBlank ==
    \A r \in Requests :
        /\ ( /\ NCalls(r, "transcribe") = 1
             /\ Last(calls[r]).op = "transcribe"
             /\ ~Last(calls[r]).raised
             /\ IsStr(transcription[r]) )
           => IF AllWhitespace(transcription[r].v)
              THEN pc[r] = "download" /\ attempt[r] = 2
              ELSE pc[r] = "chat" /\ attempt[r] = 1
        /\ (attempt[r] = 2 /\ pc[r] # "download") =>
              /\ NCalls(r, "get") = 2
              /\ calls[r][1].arg = Str(RecordingUrl[r].v \o <<".mp3">>)
              /\ calls[r][3].op = "get"
              /\ calls[r][3].arg = RecordingUrl[r]
              /\ \A i \in OpIdx(r, "chat") : i > 3
        /\ (NCalls(r, "chat") > 0 /\ NCalls(r, "get") = 1) =>
              /\ IsStr(transcription[r])
              /\ ~AllWhitespace(transcription[r].v)

\* C3 witness: a whitespace-only first transcript, the fallback made, and the
\* completion client invoked afterwards.
C3_Witness ==
    \E r \in Requests :
        /\ attempt[r] = 2
        /\ NCalls(r, "transcribe") = 2
        /\ NCalls(r, "chat") = 1

\* C4: when synthesis raised, the response is the reply-preparation apology
\* with no play directive; a play directive appears only in the response of a
\* request whose transcription, completion and synthesis all returned.
C4_SynthesisFailure ==
    \A r \in Requests :
        /\ SomeRaised(r, {"tts"}) =>
              /\ Done(r)
              /\ SaysOnly(response[r], "Sorry, an error occurred preparing my reply. Goodbye.")
              /\ ~HasTag(response[r], "Play")
        /\ HasTag(response[r], "Play") =>
              /\ ~SomeRaised(r, {"get", "transcribe", "chat", "tts"})
              /\ NCalls(r, "transcribe") >= 1
              /\ NCalls(r, "chat") = 1
              /\ NCalls(r, "tts") = 1

\* C4 witness: transcription and completion returned, synthesis raised.
C4_Witness ==
    \E r \in Requests :
        /\ Done(r)
        /\ NCalls(r, "chat") = 1
        /\ Last(calls[r]).op = "tts"
        /\ Last(calls[r]).raised

\* C5: when all three stages returned, the response is exactly Pause(1), Play of
\* HOST_URL + "/static/" + response_<token>.mp3, and the closing line; synthesis
\* was given the completion's reply, the completion was given the transcript of
\* the last attempt, and the audio saved is that of the reply.
C5_SuccessMarkup ==
    \A r \in Requests :
        (Done(r) /\ NCalls(r, "tts") = 1 /\ ~Last(calls[r]).raised) =>
            LET k == Len(calls[r]) IN
            /\ response[r].status = 200
            /\ response[r].body =
                 << [tag |-> "Pause", length |-> 1],
                    [tag |-> "Play",
                     url |-> <<"http://localhost:8000", "/static/",
                               "response_", unique[r], ".mp3">>],
                    [tag |-> "Say",
                     text |-> "If you have another question, please call again. Goodbye."] >>
            /\ calls[r][k].op = "tts"
            /\ calls[r][k].arg = answer[r]
            /\ calls[r][k].out = Str(ResponseName(r))
            /\ calls[r][k - 1].op = "chat"
            /\ calls[r][k - 1].arg = transcription[r]
            /\ calls[r][k - 2].op = "transcribe"
            /\ IsStr(answer[r])
            /\ static[ResponseName(r)].content = [kind |-> "speech", of |-> answer[r]]

\* C5 witness: a success after the fallback attempt.
C5_Witness ==
    \E r \in Requests :
        /\ Done(r)
        /\ attempt[r] = 2
        /\ HasTag(response[r], "Play")

\* C6: under every interleaving, each file name of the static directory was
\* written by one request only, every file a request wrote is one of its own two
\* names, and the file behind a play directive holds the speech that request
\* synthesized from its own reply.
C6_UniqueFiles ==
    /\ \A w1 \in written : \A w2 \in written : w1[1] = w2[1] => w1[2] = w2[2]
    /\ \A w \in written :
          w[2] \in Requests => w[1] \in {RecordingName(w[2]), ResponseName(w[2])}
    /\ \A n \in DOMAIN static : <<n, static[n].writer>> \in written
    /\ \A r \in Requests :
          HasTag(response[r], "Play") =>
              /\ ResponseName(r) \in DOMAIN static
              /\ static[ResponseName(r)] =
                    [writer |-> r, content |-> [kind |-> "speech", of |-> answer[r]]]

\* C6 witness: two requests with the same RecordingUrl, transcript and reply
\* both answered with a play directive, in a directory that also holds the
\* files an earlier run left.
C6_Witness ==
    \E r1 \in Requests : \E r2 \in Requests \ {r1} :
        /\ \E n \in DOMAIN static : static[n].writer = 0
        /\ HasTag(response[r1], "Play")
        /\ HasTag(response[r2], "Play")
        /\ RecordingUrl[r1] = RecordingUrl[r2]
        /\ transcription[r1] = transcription[r2]
        /\ answer[r1] = answer[r2]

\* C7: a finished request has returned one HTTP 200 application/xml response,
\* which is one of the five outcomes, and the outcome is decided by the calls
\* made: no call is the missing-recording line; otherwise only the last call may
\* have raised, and the apology names the stage of that call (a first transcript
\* that is not a string counts as a transcription failure); an unfinished
\* request has returned nothing.
C7_AlwaysOneResponse ==
    \A r \in Requests :
        /\ ~Done(r) <=> response[r] = NoResponse
        /\ Done(r) =>
            LET k == Len(calls[r])
                resp == response[r]
            IN /\ resp.status = 200
               /\ resp.media = "application/xml"
               /\ \A i \in 1..(k - 1) : ~calls[r][i].raised
               /\ IF k = 0 THEN SaysOnly(resp, MissingText)
                  ELSE IF calls[r][k].op \in {"get", "transcribe"}
                       THEN /\ SaysOnly(resp, AudioErrorText)
                            /\ \/ calls[r][k].raised
                               \/ attempt[r] = 1 /\ transcription[r] = PyNone
                  ELSE IF calls[r][k].op = "chat"
                       THEN calls[r][k].raised /\ SaysOnly(resp, ChatErrorText)
                  ELSE IF calls[r][k].raised
                       THEN SaysOnly(resp, TtsErrorText)
                  ELSE /\ Len(resp.body) = 3
                       /\ resp.body[1].tag = "Pause"
                       /\ resp.body[2].tag = "Play"
                       /\ resp.body[3] = [tag |-> "Say", text |-> ClosingText]

\* C7 witness: every request has finished, one with the answer-generation
\* apology and one with the audio-processing apology.
C7_Witness ==
    /\ \A r \in Requests : Done(r)
    /\ \E r \in Requests : response[r].body = <<[tag |-> "Say", text |-> ChatErrorText]>>
    /\ \E r \in Requests : response[r].body = <<[tag |-> "Say", text |-> AudioErrorText]>>

Prefixes(q) == {SubSeq(q, 1, n) : n \in 0..Len(q)}
LinearRuns ==
    Prefixes(<<"get", "transcribe", "chat", "tts">>)
    \cup Prefixes(<<"get", "transcribe", "get", "transcribe", "chat", "tts">>)

\* C8: the calls of a request are a prefix of transcription, completion,
\* synthesis, with at most one fallback attempt (at most two downloads and two
\* uploads, one completion call, one synthesis call, in that order); every call
\* but the last returned, so a second attempt follows a first that returned and
\* no stage starts after a failure; while the second attempt is pending the
\* first transcript is a blank string.
C8_NoRetryLinearOrder ==
    \A r \in Requests :
        LET k == Len(calls[r]) IN
        /\ [i \in 1..k |-> calls[r][i].op] \in LinearRuns
        /\ \A i \in 1..(k - 1) : ~calls[r][i].raised
        /\ (attempt[r] = 2 /\ pc[r] \in {"download", "upload"}) =>
              /\ IsStr(transcription[r])
              /\ AllWhitespace(transcription[r].v)
        /\ (k >= 3 /\ calls[r][3].op = "get") => attempt[r] = 2
        /\ attempt[r] = 2 => (k >= 2 /\ ~calls[r][2].raised)

\* C8 witness: the longest run: both attempts, completion, synthesis.
C8_Witness ==
    \E r \in Requests :
        /\ Done(r)
        /\ Len(calls[r]) = 6
        /\ NCalls(r, "tts") = 1

IsApology(resp) ==
    /\ Len(resp.body) = 1
    /\ resp.body[1].tag = "Say"
    /\ resp.body[1].text \in {AudioErrorText, ChatErrorText, TtsErrorText}

\* C9 as stated: a request that ended in an apology has left no file of its own
\* in the static directory.
C9_Original ==
    \A r \in Requests :
        (Done(r) /\ IsApology(response[r])) =>
            \A n \in DOMAIN static : static[n].writer # r

\* C9 amended: a request that ended in an apology reports nothing but the
\* apology line, yet its files stay: the recording saved by its last successful
\* download is in the static directory, a response file of its own is there only
\* if synthesis raised, and no file ever written is missing from the directory
\* or held by a request that did not write it.
C9_ApologyKeepsFiles ==
    /\ \A w \in written : w[1] \in DOMAIN static /\ static[w[1]].writer = w[2]
    /\ \A r \in Requests :
          (Done(r) /\ IsApology(response[r])) =>
              /\ Len(response[r].body) = 1
              /\ (\E i \in DOMAIN calls[r] : calls[r][i].op = "get" /\ ~calls[r][i].raised) =>
                    /\ RecordingName(r) \in DOMAIN static
                    /\ static[RecordingName(r)].writer = r
                    /\ static[RecordingName(r)].content.kind = "recording"
              /\ \A n \in DOMAIN static :
                    static[n].writer = r =>
                        \/ n = RecordingName(r)
                        \/ n = ResponseName(r) /\ static[n].content.kind = "partial"
                                               /\ SomeRaised(r, {"tts"})

\* C9 witness: the completion failed after a download had saved the recording,
\* and the recording is still there once every request has finished.
C9_Witness ==
    /\ \A r \in Requests : Done(r)
    /\ \E r \in Requests :
          /\ response[r].body = <<[tag |-> "Say", text |-> ChatErrorText]>>
          /\ RecordingName(r) \in DOMAIN static

\* C10: whenever a response with a play directive has been returned, the URL of
\* the directive is HOST_URL + "/static/" + a file name that is in the static
\* directory, written by the same request, holding synthesized speech.
C10_PlayedFileExists ==
    \A r \in Requests :
        \A i \in DOMAIN response[r].body :
            response[r].body[i].tag = "Play" =>
                LET url == response[r].body[i].url
                    n == SubSeq(url, 3, Len(url))
                IN /\ SubSeq(url, 1, 2) = HOST_URL \o <<"/static/">>
                   /\ n \in DOMAIN static
                   /\ n[1] = "response_"
                   /\ static[n].writer = r
                   /\ static[n].content.kind = "speech"

\* C10 witness: a play directive was returned while the static directory also
\* holds the response file of another request, whose synthesis failed.
C10_Witness ==
    \E r1 \in Requests : \E r2 \in Requests \ {r1} :
        /\ HasTag(response[r1], "Play")
        /\ Done(r2)
        /\ ResponseName(r2) \in DOMAIN static
        /\ ~HasTag(response[r2], "Play")

====
